---- MODULE Spec2Model ----
(***************************************************************************)
(* Tree attestation and NFT minting workflow.                              *)
(*                                                                         *)
(* Two state machines live in this module:                                 *)
(*   Spec          the orchestrator of index.js together with the body of  *)
(*                 uploadToIPFS, run as a sequence of processes that share *)
(*                 the record file, the attestation registry and the      *)
(*                 pinning service;                                        *)
(*   ContractSpec  the ResearchNFT token contract.                         *)
(*                                                                         *)
(* A JavaScript value that may be undefined is modelled as a sequence of   *)
(* length at most one: <<>> is undefined, <<s>> is the string s.           *)
(***************************************************************************)
EXTENDS Integers, Sequences, FiniteSets

VARIABLES
    env,             \* process.env of the running process
    metadataNFTree,  \* TRUE iff the file metadataNFTree exists
    attestationJson, \* content of attestation.json (<<>>: absent or empty)
    pc,              \* position of the main async function
    attestationUID,  \* index.js local
    ipfsCID,         \* index.js local
    recipient,       \* index.js local
    error,           \* the exception in flight / caught
    console,         \* what the main function has logged in this run
    exitCode,        \* <<>> while the process runs, <<c>> once it has exited
    attestations,    \* UIDs the attestation registry has confirmed, oldest first
    pins,            \* content identifiers the pinning service holds (a set:
                     \* the store is content-addressed)
    minted,          \* arguments of the mint transactions that were confirmed
    mintArgs,        \* arguments of every mintNFTree invocation of this run
    trace,           \* call / return / throw events of this run
    writes,          \* every writeFileSync attempt of all runs: [uid, ok]
    run,             \* number of the running process
    \* ResearchNFT
    _owner,           \* Ownable: the owning account
    _baseURI,         \* base URI for metadata
    _tokenMetadata,   \* token ID -> current IPFS CID
    _metadataHistory, \* token ID -> array of IPFS CIDs
    _balances,        \* ERC1155: token ID -> account -> balance
    everMinted,       \* token IDs some mint transaction has succeeded for
    successLog,       \* token ID -> URIs of the successful mint / update calls
    lastCall,         \* the most recent transaction and how it ended
    baseURISet        \* the base URI last passed to the constructor or to a
                      \* successful updateBaseURI

wfVars == <<env, metadataNFTree, attestationJson, pc, attestationUID, ipfsCID,
            recipient, error, console, exitCode, attestations, pins, minted,
            mintArgs, trace, writes, run>>

ctVars == <<_owner, _baseURI, _tokenMetadata, _metadataHistory, _balances,
            everMinted, successLog, lastCall, baseURISet>>

----------------------------------------------------------------------------
(* Bounds and input domains *)

MaxRuns == 2

UIDs == {"0xabc", "0xdef"}
IpfsHashes == {"Qm123", "Qm456"}

Undefined == <<>>
Some(s) == <<s>>

\* A .env entry is missing or set; an entry may also be set to the empty
\* string (KEY= with nothing after it).
EnvValues(v) == {Undefined, Some(v)}
EnvValuesOrEmpty(v) == {Undefined, Some(""), Some(v)}

Envs == [PINATA_API_KEY     : EnvValuesOrEmpty("key"),
         PINATA_API_SECRET  : EnvValues("secret"),
         PINATA_GATEWAY_URL : EnvValues("https://gateway.pinata.cloud/ipfs/"),
         RECIPIENT_ADDRESS  : EnvValuesOrEmpty("0xRecipient")]

----------------------------------------------------------------------------
(* JavaScript helpers *)

\* !v for v undefined or a string
Falsy(v) == v = Undefined \/ v = Some("")

\* String(v), as the + operator applies it to an operand that is no string
JSString(v) == IF v = Undefined THEN "undefined" ELSE v[1]

\* a + b where b is a string
JSConcat(a, b) == JSString(a) \o b

(* JSON text is a sequence of tokens: punctuation, or a quoted string. *)
LBrace == <<"punct", "{">>
RBrace == <<"punct", "}">>
Colon  == <<"punct", ":">>
Comma  == <<"punct", ",">>
Str(s) == <<"string", s>>

\* An object is a sequence of <<key, value>> in insertion order; a value
\* is a string or undefined.  JSON.stringify leaves out undefined members.
RECURSIVE Members(_)
Members(obj) ==
    IF obj = <<>> THEN <<>>
    ELSE LET k == Head(obj)[1]
             v == Head(obj)[2]
             rest == Members(Tail(obj))
         IN IF v = Undefined THEN rest
            ELSE <<Str(k), Colon, Str(v[1])>>
                 \o (IF rest = <<>> THEN <<>> ELSE <<Comma>> \o rest)

JSONStringify(obj) == <<LBrace>> \o Members(obj) \o <<RBrace>>

----------------------------------------------------------------------------
(* Bookkeeping shared by the actions *)

\* An event of the run: a call is made, returns (with a value) or throws.
EventV(op, phase, value) == <<op, phase, value>>
Event(op, phase) == EventV(op, phase, "")
Log(events) == trace' = trace \o events

\* throw inside the try block of the main function: control moves to catch
Throw(e) == /\ error' = Some(e)
            /\ pc' = "catch"

----------------------------------------------------------------------------
(* index.js, step 1 *)

\* (a variant that validates the recipient before anything else)
CallCreateAttestationValidatesFirst ==
    /\ pc = "step1"
    /\ IF Falsy(env.RECIPIENT_ADDRESS)
         THEN /\ Throw("MissingRecipient")
              /\ Log(<<Event("recipientCheck", "call"),
                       Event("recipientCheck", "throw")>>)
         ELSE /\ pc' = "awaitAttestation"
              /\ UNCHANGED error
              /\ Log(<<Event("createAttestation", "call")>>)
    /\ UNCHANGED ctVars
    /\ UNCHANGED <<env, metadataNFTree, attestationJson, attestationUID,
                   ipfsCID, recipient, console, exitCode, attestations, pins,
                   minted, mintArgs, writes, run>>

\* const attestationUID = await createAttestation();  -- the call is made
CallCreateAttestation ==
    /\ pc = "step1"
    /\ pc' = "awaitAttestation"
    /\ Log(<<Event("createAttestation", "call")>>)
    /\ UNCHANGED ctVars
    /\ UNCHANGED <<env, metadataNFTree, attestationJson, attestationUID,
                   ipfsCID, recipient, error, console, exitCode, attestations,
                   pins, minted, mintArgs, writes, run>>

\* the promise resolves with the UID the registry assigned
CreateAttestationReturns(uid) ==
    /\ pc = "awaitAttestation"
    /\ attestations' = Append(attestations, uid)
    /\ attestationUID' = Some(uid)
    /\ pc' = "step2"
    /\ Log(<<EventV("createAttestation", "return", uid)>>)
    /\ UNCHANGED ctVars
    /\ UNCHANGED <<env, metadataNFTree, attestationJson, ipfsCID, recipient,
                   error, console, exitCode, pins, minted, mintArgs, writes,
                   run>>

\* (a variant in which the rejection is swallowed and the run goes on)
CreateAttestationThrowsSwallowed ==
    /\ pc = "awaitAttestation"
    /\ pc' = "step2"
    /\ Log(<<Event("createAttestation", "throw")>>)
    /\ UNCHANGED ctVars
    /\ UNCHANGED <<env, metadataNFTree, attestationJson, attestationUID,
                   ipfsCID, recipient, error, console, exitCode, attestations,
                   pins, minted, mintArgs, writes, run>>

\* the promise rejects: nothing was attested
CreateAttestationThrows ==
    /\ pc = "awaitAttestation"
    /\ Throw("AttestationFailed")
    /\ Log(<<Event("createAttestation", "throw")>>)
    /\ UNCHANGED ctVars
    /\ UNCHANGED <<env, metadataNFTree, attestationJson, attestationUID,
                   ipfsCID, recipient, console, exitCode, attestations, pins,
                   minted, mintArgs, writes, run>>

----------------------------------------------------------------------------
(* index.js, step 2 *)

\* const attestationData = { name: "AttestationUID", value: attestationUID };
attestationData == << <<"name", Some("AttestationUID")>>,
                      <<"value", attestationUID>> >>

\* (a variant that appends, as fs.appendFileSync would)
WriteFileSyncAppends(file, text) == file \o text

\* fs.writeFileSync(filePath, text): the file is replaced by text
WriteFileSync(file, text) == text

\* what a writeFileSync that throws may leave behind: the file untouched
\* (it could not be opened) or truncated (it was opened, the write failed)
WriteFileSyncFailed(file) == {file, <<>>}

\* saveAttestationToJson(attestationUID, attestationData) returns
saveAttestationToJson(data) ==
    /\ pc = "step2"
    /\ attestationJson' = WriteFileSync(attestationJson, JSONStringify(data))
    /\ writes' = Append(writes, [uid |-> attestationUID, ok |-> TRUE])
    /\ pc' = "step3"
    /\ Log(<<Event("saveAttestationToJson", "call"),
             Event("saveAttestationToJson", "return")>>)
    /\ UNCHANGED ctVars
    /\ UNCHANGED <<env, metadataNFTree, attestationUID, ipfsCID, recipient,
                   error, console, exitCode, attestations, pins, minted,
                   mintArgs, run>>

\* saveAttestationToJson throws because writeFileSync does
saveAttestationToJsonThrows ==
    /\ pc = "step2"
    /\ attestationJson' \in WriteFileSyncFailed(attestationJson)
    /\ writes' = Append(writes, [uid |-> attestationUID, ok |-> FALSE])
    /\ Throw("WriteFailed")
    /\ Log(<<Event("saveAttestationToJson", "call"),
             Event("saveAttestationToJson", "throw")>>)
    /\ UNCHANGED ctVars
    /\ UNCHANGED <<env, metadataNFTree, attestationUID, ipfsCID, recipient,
                   console, exitCode, attestations, pins, minted, mintArgs,
                   run>>

----------------------------------------------------------------------------
(* uploadToIPFS, called from index.js step 3 *)

\* module constants, read from process.env when the module is loaded
pinataApiKey == env.PINATA_API_KEY
pinataSecretApiKey == env.PINATA_API_SECRET
gatewayURL == env.PINATA_GATEWAY_URL

\* throw inside the try block of uploadToIPFS: its catch logs and rethrows
UploadThrow(e) == /\ error' = Some(e)
                  /\ pc' = "uploadCatch"

\* const ipfsCID = await uploadToIPFS(filePath);  -- the call is made
CallUploadToIPFS ==
    /\ pc = "step3"
    /\ pc' = "checkKeys"
    /\ Log(<<Event("uploadToIPFS", "call")>>)
    /\ UNCHANGED ctVars
    /\ UNCHANGED <<env, metadataNFTree, attestationJson, attestationUID,
                   ipfsCID, recipient, error, console, exitCode, attestations,
                   pins, minted, mintArgs, writes, run>>

\* if (!pinataApiKey || !pinataSecretApiKey) throw
KeysMissing == Falsy(pinataApiKey) \/ Falsy(pinataSecretApiKey)

CheckPinataKeys ==
    /\ pc = "checkKeys"
    /\ IF KeysMissing
         THEN /\ UploadThrow("MissingCredentials")
              /\ Log(<<Event("keysGuard", "throw")>>)
         ELSE /\ pc' = "checkFile"
              /\ UNCHANGED error
              /\ Log(<<Event("keysGuard", "return")>>)
    /\ UNCHANGED ctVars
    /\ UNCHANGED <<env, metadataNFTree, attestationJson, attestationUID,
                   ipfsCID, recipient, console, exitCode, attestations, pins,
                   minted, mintArgs, writes, run>>

\* (a variant without the existence check)
FileMissingNeverChecked == FALSE

\* if (!fs.existsSync(filePath)) throw
FileMissing == ~metadataNFTree

CheckFileExists ==
    /\ pc = "checkFile"
    /\ IF FileMissing
         THEN /\ UploadThrow("FileNotFound")
              /\ Log(<<Event("fileGuard", "throw")>>)
         ELSE /\ pc' = "pin"
              /\ UNCHANGED error
              /\ Log(<<Event("fileGuard", "return")>>)
    /\ UNCHANGED ctVars
    /\ UNCHANGED <<env, metadataNFTree, attestationJson, attestationUID,
                   ipfsCID, recipient, console, exitCode, attestations, pins,
                   minted, mintArgs, writes, run>>

\* const result = await pinata.pinFileToIPFS(...);  -- the call is made
CallPinFileToIPFS ==
    /\ pc = "pin"
    /\ pc' = "awaitPin"
    /\ Log(<<Event("pinFileToIPFS", "call")>>)
    /\ UNCHANGED ctVars
    /\ UNCHANGED <<env, metadataNFTree, attestationJson, attestationUID,
                   ipfsCID, recipient, error, console, exitCode, attestations,
                   pins, minted, mintArgs, writes, run>>

\* (a variant that returns the bare content identifier)
UploadResultHashOnly(IpfsHash) == IpfsHash

\* return gatewayURL+result.IpfsHash;
UploadResult(IpfsHash) == JSConcat(gatewayURL, IpfsHash)

\* the pin succeeds with result.IpfsHash; uploadToIPFS returns to index.js
PinFileToIPFSReturns(IpfsHash) ==
    /\ pc = "awaitPin"
    /\ pins' = pins \cup {IpfsHash}
    /\ ipfsCID' = Some(UploadResult(IpfsHash))
    /\ pc' = "step4"
    /\ Log(<<EventV("pinFileToIPFS", "return", IpfsHash),
             EventV("uploadToIPFS", "return", UploadResult(IpfsHash))>>)
    /\ UNCHANGED ctVars
    /\ UNCHANGED <<env, metadataNFTree, attestationJson, attestationUID,
                   recipient, error, console, exitCode, attestations, minted,
                   mintArgs, writes, run>>

\* (a variant that tries the pin again)
PinFileToIPFSThrowsRetries ==
    /\ pc = "awaitPin"
    /\ pc' = "pin"
    /\ Log(<<Event("pinFileToIPFS", "throw")>>)
    /\ UNCHANGED ctVars
    /\ UNCHANGED <<env, metadataNFTree, attestationJson, attestationUID,
                   ipfsCID, recipient, error, console, exitCode, attestations,
                   pins, minted, mintArgs, writes, run>>

\* the pin fails: nothing was stored
PinFileToIPFSThrows ==
    /\ pc = "awaitPin"
    /\ UploadThrow("UploadFailed")
    /\ Log(<<Event("pinFileToIPFS", "throw")>>)
    /\ UNCHANGED ctVars
    /\ UNCHANGED <<env, metadataNFTree, attestationJson, attestationUID,
                   ipfsCID, recipient, console, exitCode, attestations, pins,
                   minted, mintArgs, writes, run>>

\* (a variant whose catch only logs, as the catch of main() in that file does)
UploadRethrowSwallowed ==
    /\ pc = "uploadCatch"
    /\ pc' = "step4"
    /\ error' = Undefined
    /\ Log(<<Event("uploadToIPFS", "return")>>)
    /\ UNCHANGED ctVars
    /\ UNCHANGED <<env, metadataNFTree, attestationJson, attestationUID,
                   ipfsCID, recipient, console, exitCode, attestations, pins,
                   minted, mintArgs, writes, run>>

\* catch (error) { console.error(...); throw error; }
UploadRethrow ==
    /\ pc = "uploadCatch"
    /\ pc' = "catch"
    /\ Log(<<Event("uploadToIPFS", "throw")>>)
    /\ UNCHANGED ctVars
    /\ UNCHANGED <<env, metadataNFTree, attestationJson, attestationUID,
                   ipfsCID, recipient, error, console, exitCode, attestations,
                   pins, minted, mintArgs, writes, run>>

----------------------------------------------------------------------------
(* index.js, step 4 *)

tokenId == 2
amount == 1

\* const tokenURI = ipfsCID;
tokenURI == JSString(ipfsCID)

\* (a variant without the recipient check)
RecipientMissingNeverChecked == FALSE

\* if (!recipient) throw
RecipientMissing == Falsy(env.RECIPIENT_ADDRESS)

\* const recipient = process.env.RECIPIENT_ADDRESS; ... if (!recipient) throw
CheckRecipient ==
    /\ pc = "step4"
    /\ recipient' = env.RECIPIENT_ADDRESS
    /\ IF RecipientMissing
         THEN /\ Throw("MissingRecipient")
              /\ Log(<<Event("recipientCheck", "call"),
                       Event("recipientCheck", "throw")>>)
         ELSE /\ pc' = "mint"
              /\ UNCHANGED error
              /\ Log(<<Event("recipientCheck", "call"),
                       Event("recipientCheck", "return")>>)
    /\ UNCHANGED ctVars
    /\ UNCHANGED <<env, metadataNFTree, attestationJson, attestationUID,
                   ipfsCID, console, exitCode, attestations, pins, minted,
                   mintArgs, writes, run>>

\* await mintNFTree(recipient, tokenId, amount, tokenURI);  -- the call is made
CallMintNFTree ==
    /\ pc = "mint"
    /\ mintArgs' = Append(mintArgs, [to |-> recipient, tokenId |-> tokenId,
                                     amount |-> amount, tokenURI |-> tokenURI])
    /\ pc' = "awaitMint"
    /\ Log(<<Event("mintNFTree", "call")>>)
    /\ UNCHANGED ctVars
    /\ UNCHANGED <<env, metadataNFTree, attestationJson, attestationUID,
                   ipfsCID, recipient, error, console, exitCode, attestations,
                   pins, minted, writes, run>>

\* the mint transaction is confirmed; the receipt is returned
MintNFTreeReturns ==
    /\ pc = "awaitMint"
    /\ minted' = minted \cup {mintArgs[Len(mintArgs)]}
    /\ pc' = "completed"
    /\ Log(<<Event("mintNFTree", "return")>>)
    /\ UNCHANGED ctVars
    /\ UNCHANGED <<env, metadataNFTree, attestationJson, attestationUID,
                   ipfsCID, recipient, error, console, exitCode, attestations,
                   pins, mintArgs, writes, run>>

\* the mint fails (RPC error or revert): nothing was minted
MintNFTreeThrows ==
    /\ pc = "awaitMint"
    /\ Throw("MintFailed")
    /\ Log(<<Event("mintNFTree", "throw")>>)
    /\ UNCHANGED ctVars
    /\ UNCHANGED <<env, metadataNFTree, attestationJson, attestationUID,
                   ipfsCID, recipient, console, exitCode, attestations, pins,
                   minted, mintArgs, writes, run>>

----------------------------------------------------------------------------
(* index.js, the end of the main function *)

CompletedMessage == "Workflow completed successfully!"
ErrorMessage == "Error in main process:"

\* console.log("Workflow completed successfully!");
LogCompleted ==
    /\ pc = "completed"
    /\ console' = console \cup {<<CompletedMessage>>}
    /\ pc' = "end"
    /\ UNCHANGED ctVars
    /\ UNCHANGED <<env, metadataNFTree, attestationJson, attestationUID,
                   ipfsCID, recipient, error, exitCode, attestations, pins,
                   minted, mintArgs, trace, writes, run>>

\* (a variant whose catch block is empty)
CatchErrorSilently ==
    /\ pc = "catch"
    /\ pc' = "end"
    /\ UNCHANGED ctVars
    /\ UNCHANGED <<env, metadataNFTree, attestationJson, attestationUID,
                   ipfsCID, recipient, error, console, exitCode, attestations,
                   pins, minted, mintArgs, trace, writes, run>>

\* catch (error) { console.error("Error in main process:", error); }
CatchError ==
    /\ pc = "catch"
    /\ console' = console \cup {<<ErrorMessage, error[1]>>}
    /\ pc' = "end"
    /\ UNCHANGED ctVars
    /\ UNCHANGED <<env, metadataNFTree, attestationJson, attestationUID,
                   ipfsCID, recipient, error, exitCode, attestations, pins,
                   minted, mintArgs, trace, writes, run>>

\* The main function has returned on either path, its promise is fulfilled
\* and nothing sets process.exitCode: the process exits with status 0.
ProcessExit ==
    /\ pc = "end"
    /\ exitCode' = Some(0)
    /\ pc' = "exited"
    /\ UNCHANGED ctVars
    /\ UNCHANGED <<env, metadataNFTree, attestationJson, attestationUID,
                   ipfsCID, recipient, error, console, attestations, pins,
                   minted, mintArgs, trace, writes, run>>

\* node index.js is started again: a new process, the same file system,
\* registry and pinning service
NewRun(e, exists) ==
    /\ pc = "exited"
    /\ run < MaxRuns
    /\ run' = run + 1
    /\ env' = e
    /\ metadataNFTree' = exists
    /\ pc' = "step1"
    /\ attestationUID' = Undefined
    /\ ipfsCID' = Undefined
    /\ recipient' = Undefined
    /\ error' = Undefined
    /\ console' = {}
    /\ exitCode' = Undefined
    /\ mintArgs' = <<>>
    /\ trace' = <<>>
    /\ UNCHANGED ctVars
    /\ UNCHANGED <<attestationJson, attestations, pins, minted, writes>>

----------------------------------------------------------------------------
(* ResearchNFT: domains *)

MaxHistory == 3
MaxSupply == 1

ZeroAddress == "0x0"
Deployer == "0xDeployer"
Callers == {Deployer, "0xOther"}
Accounts == {ZeroAddress, "0xRecipient"}
TokenIds == {1, 2}
Amounts == {0, 1}
URIs == {"", "ipfs://a", "ipfs://b"}
BaseURIs == {"https://base/1/", "https://base/2/"}

Ok == "ok"

----------------------------------------------------------------------------
(* ResearchNFT: construction *)

\* _baseURI = baseURI;
_setBaseURI(baseURI) == _baseURI' = baseURI

\* constructor(baseURI) ERC1155(baseURI) Ownable(msg.sender)
Constructor(sender, baseURI) ==
    /\ _owner = sender
    /\ _baseURI = baseURI
    /\ _tokenMetadata = [id \in TokenIds |-> ""]
    /\ _metadataHistory = [id \in TokenIds |-> <<>>]
    /\ _balances = [id \in TokenIds |-> [a \in Accounts |-> 0]]
    /\ everMinted = {}
    /\ successLog = [id \in TokenIds |-> <<>>]
    /\ lastCall = [op |-> "constructor", sender |-> sender, id |-> 0,
                   result |-> Ok]
    /\ baseURISet = baseURI

\* (a variant that prefers the per-token metadata pointer)
uriPerToken(id) == IF _tokenMetadata[id] # "" THEN _tokenMetadata[id]
                   ELSE _baseURI

\* function uri(uint256) returns _baseURI
uri(id) == _baseURI

----------------------------------------------------------------------------
(* ResearchNFT: mutators.  A transaction that reverts changes no storage. *)

\* (a variant that lets every sender through)
onlyOwnerAnyone(sender) == TRUE

\* modifier onlyOwner
onlyOwner(sender) == sender = _owner

\* (a variant without require(bytes(ipfsURL).length > 0))
mintOutcomeNoEmptyCheck(sender, account, id, amt, ipfsURL) ==
    IF ~onlyOwner(sender) THEN "OwnableUnauthorizedAccount"
    ELSE IF account = ZeroAddress THEN "ERC1155InvalidReceiver"
    ELSE Ok

\* the outcome of mint(account, id, amount, ipfsURL) sent by sender:
\* onlyOwner, the require, then the checks of ERC1155._mint
mintOutcome(sender, account, id, amt, ipfsURL) ==
    IF ~onlyOwner(sender) THEN "OwnableUnauthorizedAccount"
    ELSE IF ipfsURL = "" THEN "IPFS URL cannot be empty"
    ELSE IF account = ZeroAddress THEN "ERC1155InvalidReceiver"
    ELSE Ok

\* (a variant that overwrites the last entry)
pushReplacesLast(history, url) ==
    IF history = <<>> THEN <<url>>
    ELSE [history EXCEPT ![Len(history)] = url]

\* _metadataHistory[id].push(url)
push(history, url) == Append(history, url)

mint(sender, account, id, amt, ipfsURL) ==
    /\ Len(_metadataHistory[id]) < MaxHistory
    /\ _balances[id][account] + amt <= MaxSupply
    /\ LET outcome == mintOutcome(sender, account, id, amt, ipfsURL) IN
       /\ lastCall' = [op |-> "mint", sender |-> sender, id |-> id,
                       result |-> outcome]
       /\ IF outcome = Ok
            THEN /\ _balances' = [_balances EXCEPT ![id][account] = @ + amt]
                 /\ _tokenMetadata' = [_tokenMetadata EXCEPT ![id] = ipfsURL]
                 /\ _metadataHistory' =
                        [_metadataHistory EXCEPT ![id] = push(@, ipfsURL)]
                 /\ everMinted' = everMinted \cup {id}
                 /\ successLog' = [successLog EXCEPT ![id] = Append(@, ipfsURL)]
            ELSE UNCHANGED <<_balances, _tokenMetadata, _metadataHistory,
                             everMinted, successLog>>
    /\ UNCHANGED <<_owner, _baseURI, baseURISet>>
    /\ UNCHANGED wfVars

\* (a variant without require(bytes(_tokenMetadata[id]).length > 0))
updateTokenMetadataOutcomeNoExistsCheck(sender, id, newIpfsURL) ==
    IF ~onlyOwner(sender) THEN "OwnableUnauthorizedAccount"
    ELSE IF newIpfsURL = "" THEN "IPFS URL cannot be empty"
    ELSE Ok

\* the outcome of updateTokenMetadata(id, newIpfsURL) sent by sender
updateTokenMetadataOutcome(sender, id, newIpfsURL) ==
    IF ~onlyOwner(sender) THEN "OwnableUnauthorizedAccount"
    ELSE IF newIpfsURL = "" THEN "IPFS URL cannot be empty"
    ELSE IF _tokenMetadata[id] = "" THEN "Token ID does not exist"
    ELSE Ok

updateTokenMetadata(sender, id, newIpfsURL) ==
    /\ Len(_metadataHistory[id]) < MaxHistory
    /\ LET outcome == updateTokenMetadataOutcome(sender, id, newIpfsURL) IN
       /\ lastCall' = [op |-> "updateTokenMetadata", sender |-> sender,
                       id |-> id, result |-> outcome]
       /\ IF outcome = Ok
            THEN /\ _metadataHistory' =
                        [_metadataHistory EXCEPT ![id] = push(@, newIpfsURL)]
                 /\ _tokenMetadata' = [_tokenMetadata EXCEPT ![id] = newIpfsURL]
                 /\ successLog' = [successLog EXCEPT ![id] = Append(@, newIpfsURL)]
            ELSE UNCHANGED <<_tokenMetadata, _metadataHistory, successLog>>
    /\ UNCHANGED <<_owner, _baseURI, _balances, everMinted, baseURISet>>
    /\ UNCHANGED wfVars

\* updateBaseURI(newBaseURI) sent by sender
updateBaseURI(sender, newBaseURI) ==
    /\ LET outcome == IF onlyOwner(sender) THEN Ok
                      ELSE "OwnableUnauthorizedAccount" IN
       /\ lastCall' = [op |-> "updateBaseURI", sender |-> sender, id |-> 0,
                       result |-> outcome]
       /\ IF outcome = Ok
            THEN _setBaseURI(newBaseURI) /\ baseURISet' = newBaseURI
            ELSE UNCHANGED <<_baseURI, baseURISet>>
    /\ UNCHANGED <<_owner, _tokenMetadata, _metadataHistory, _balances,
                   everMinted, successLog>>
    /\ UNCHANGED wfVars

----------------------------------------------------------------------------
(* ResearchNFT: views.  A view returns a value or reverts with a reason. *)

Returns(value) == [ok |-> TRUE, value |-> value, reason |-> ""]
Reverts(reason, empty) == [ok |-> FALSE, value |-> empty, reason |-> reason]

\* (a variant without the require)
getTokenMetadataNoRequire(id) == Returns(_tokenMetadata[id])

\* require(bytes(_tokenMetadata[id]).length > 0, ...); return _tokenMetadata[id];
getTokenMetadata(id) ==
    IF _tokenMetadata[id] # "" THEN Returns(_tokenMetadata[id])
    ELSE Reverts("Token ID does not exist", "")

\* require(_metadataHistory[id].length > 0, ...); return _metadataHistory[id];
getMetadataHistory(id) ==
    IF Len(_metadataHistory[id]) > 0 THEN Returns(_metadataHistory[id])
    ELSE Reverts("No history for this token ID", <<>>)

----------------------------------------------------------------------------
(* The workflow *)

Init ==
    /\ env \in Envs
    /\ metadataNFTree \in BOOLEAN
    /\ attestationJson = <<>>
    /\ pc = "step1"
    /\ attestationUID = Undefined
    /\ ipfsCID = Undefined
    /\ recipient = Undefined
    /\ error = Undefined
    /\ console = {}
    /\ exitCode = Undefined
    /\ attestations = <<>>
    /\ pins = {}
    /\ minted = {}
    /\ mintArgs = <<>>
    /\ trace = <<>>
    /\ writes = <<>>
    /\ run = 1
    /\ Constructor(Deployer, "https://base/1/")

Next ==
    \/ CallCreateAttestation
    \/ \E uid \in UIDs : CreateAttestationReturns(uid)
    \/ CreateAttestationThrows
    \/ saveAttestationToJson(attestationData)
    \/ saveAttestationToJsonThrows
    \/ CallUploadToIPFS
    \/ CheckPinataKeys
    \/ CheckFileExists
    \/ CallPinFileToIPFS
    \/ \E IpfsHash \in IpfsHashes : PinFileToIPFSReturns(IpfsHash)
    \/ PinFileToIPFSThrows
    \/ UploadRethrow
    \/ CheckRecipient
    \/ CallMintNFTree
    \/ MintNFTreeReturns
    \/ MintNFTreeThrows
    \/ LogCompleted
    \/ CatchError
    \/ ProcessExit
    \/ \E e \in Envs, exists \in BOOLEAN : NewRun(e, exists)

vars == <<wfVars, ctVars>>

Spec == Init /\ [][Next]_vars

----------------------------------------------------------------------------
(* The token contract, from its deployment on *)

ContractInit ==
    /\ env = [PINATA_API_KEY |-> Undefined, PINATA_API_SECRET |-> Undefined,
              PINATA_GATEWAY_URL |-> Undefined, RECIPIENT_ADDRESS |-> Undefined]
    /\ metadataNFTree = FALSE
    /\ attestationJson = <<>>
    /\ pc = "exited"
    /\ attestationUID = Undefined
    /\ ipfsCID = Undefined
    /\ recipient = Undefined
    /\ error = Undefined
    /\ console = {}
    /\ exitCode = Undefined
    /\ attestations = <<>>
    /\ pins = {}
    /\ minted = {}
    /\ mintArgs = <<>>
    /\ trace = <<>>
    /\ writes = <<>>
    /\ run = MaxRuns
    /\ \E baseURI \in BaseURIs : Constructor(Deployer, baseURI)

ContractNext ==
    \/ \E sender \in Callers, account \in Accounts, id \in TokenIds,
          amt \in Amounts, ipfsURL \in URIs :
            mint(sender, account, id, amt, ipfsURL)
    \/ \E sender \in Callers, id \in TokenIds, newIpfsURL \in URIs :
            updateTokenMetadata(sender, id, newIpfsURL)
    \/ \E sender \in Callers, newBaseURI \in BaseURIs :
            updateBaseURI(sender, newBaseURI)

ContractSpec == ContractInit /\ [][ContractNext]_vars

----------------------------------------------------------------------------
(* Reading the events of a run *)

HasEvent(op, phase) ==
    \E i \in DOMAIN trace : trace[i][1] = op /\ trace[i][2] = phase

Count(op, phase) ==
    Cardinality({i \in DOMAIN trace : trace[i][1] = op /\ trace[i][2] = phase})

\* the value op returned in this run
ReturnedValue(op) ==
    trace[CHOOSE i \in DOMAIN trace :
              trace[i][1] = op /\ trace[i][2] = "return"][3]

StepOrder == <<"createAttestation", "saveAttestationToJson", "uploadToIPFS",
               "recipientCheck", "mintNFTree">>
StepNames == {StepOrder[k] : k \in DOMAIN StepOrder}

IsStepCall(e) == e[2] = "call" /\ e[1] \in StepNames

\* the steps started in this run, in the order they started
StartedSteps ==
    LET calls == SelectSeq(trace, IsStepCall)
    IN [i \in 1..Len(calls) |-> calls[i][1]]

InProgress(op) == Count(op, "call") > Count(op, "return") + Count(op, "throw")

\* some call of this run has thrown
Failed == \E i \in DOMAIN trace : trace[i][2] = "throw"

IsPrefix(s, t) == Len(s) <= Len(t) /\ s = SubSeq(t, 1, Len(s))

\* the text of the one-record file {"name": "AttestationUID", "value": uid}
RecordText(uid) == <<LBrace, Str("name"), Colon, Str("AttestationUID"), Comma,
                     Str("value"), Colon, Str(uid), RBrace>>

\* configuration as the claims speak of it
RecipientAbsent == env.RECIPIENT_ADDRESS \in {Undefined, Some("")}
KeysAbsent == \/ env.PINATA_API_KEY \in {Undefined, Some("")}
              \/ env.PINATA_API_SECRET \in {Undefined, Some("")}
GatewayAbsent == env.PINATA_GATEWAY_URL = Undefined
FileAbsent == ~metadataNFTree

----------------------------------------------------------------------------
(* C1: in every run the steps start in the order createAttestation, record *)
(* write, uploadToIPFS, recipient check, mintNFTree; a step starts only    *)
(* after the step before it has returned, and at most one step is in       *)
(* progress at any time.                                                   *)
C1_StepsInOrder ==
    /\ Len(StartedSteps) <= Len(StepOrder)
    /\ StartedSteps = SubSeq(StepOrder, 1, Len(StartedSteps))
    /\ \A k \in 2..Len(StepOrder) : \A j \in DOMAIN trace :
          (trace[j][1] = StepOrder[k] /\ trace[j][2] = "call")
             => \E i \in 1..(j - 1) :
                   trace[i][1] = StepOrder[k - 1] /\ trace[i][2] = "return"
    /\ Cardinality({op \in StepNames : InProgress(op)}) <= 1

C1_Witness == StartedSteps = StepOrder /\ InProgress("mintNFTree")

\* no call follows a throw
C2_NoCallAfterThrow ==
    \A i \in DOMAIN trace :
        trace[i][2] = "throw"
           => \A j \in (i + 1)..Len(trace) : trace[j][2] # "call"

\* what every step of the workflow leaves in place
C2_EffectsStay ==
    /\ IsPrefix(attestations, attestations')
    /\ pins \subseteq pins'
    /\ minted \subseteq minted'
    /\ error # Undefined
          => UNCHANGED <<attestationJson, attestations, pins, minted>>
    /\ HasEvent("saveAttestationToJson", "return")
          => attestationJson' = attestationJson

(* C2: once a call of the run has thrown, the run makes no further call;   *)
(* nothing is undone: the registry, the pinning service and the mints only *)
(* grow, a failed run changes none of them nor the record file, and the    *)
(* record file a run has written stays as written.                         *)
C2_AbortNoRollback == [] C2_NoCallAfterThrow /\ [][C2_EffectsStay]_vars

C2_Witness ==
    /\ pc = "exited"
    /\ error = Some("MintFailed")
    /\ attestations # <<>>
    /\ attestationJson = RecordText(ReturnedValue("createAttestation"))
    /\ pins # {}
    /\ minted = {}

(* C3, as stated: with RECIPIENT_ADDRESS absent the run ends with the      *)
(* missing-recipient error and mintNFTree is never invoked.                *)
C3_Original ==
    (RecipientAbsent /\ pc = "exited")
       => (error = Some("MissingRecipient") /\ mintArgs = <<>>)

(* C3, amended: with RECIPIENT_ADDRESS absent mintNFTree is never invoked  *)
(* and the run fails: with the missing-recipient error exactly when        *)
(* uploadToIPFS has returned, otherwise with the error of the earlier step *)
(* that failed.                                                            *)
C3_Amended ==
    RecipientAbsent
       => /\ mintArgs = <<>>
          /\ ~HasEvent("mintNFTree", "call")
          /\ pc \notin {"mint", "awaitMint", "completed"}
          /\ pc = "exited"
                => /\ error # Undefined
                   /\ error = Some("MissingRecipient")
                         <=> HasEvent("uploadToIPFS", "return")

C3_Witness ==
    /\ RecipientAbsent
    /\ pc = "exited"
    /\ error = Some("MissingRecipient")
    /\ mintArgs = <<>>

(* C4: in a run in which every step succeeded, with the gateway base URL   *)
(* configured, the record file is {name: "AttestationUID", value: u} for   *)
(* the UID u the attestation client returned, and mintNFTree was invoked   *)
(* exactly once, with the configured recipient, token class 2, quantity 1  *)
(* and the gateway base followed by the content identifier c the pinning   *)
(* service returned.                                                       *)
C4_SuccessfulRun ==
    (HasEvent("mintNFTree", "return") /\ ~GatewayAbsent)
       => LET u == ReturnedValue("createAttestation")
              c == ReturnedValue("pinFileToIPFS")
          IN /\ attestationJson = RecordText(u)
             /\ mintArgs = << [to |-> env.RECIPIENT_ADDRESS,
                               tokenId |-> 2,
                               amount |-> 1,
                               tokenURI |-> env.PINATA_GATEWAY_URL[1] \o c] >>

C4_Witness ==
    /\ pc = "exited"
    /\ HasEvent("mintNFTree", "return")
    /\ ~GatewayAbsent
    /\ ReturnedValue("createAttestation") = "0xabc"
    /\ ReturnedValue("pinFileToIPFS") = "Qm123"

(* C5, as stated: after any sequence of runs the record file holds exactly *)
(* the record of the most recent run whose attestation succeeded.          *)
C5_Original ==
    (pc = "exited" /\ attestations # <<>>)
       => attestationJson = RecordText(attestations[Len(attestations)])

\* the file is what the last successful write put there
C5_FileIsLastWrite ==
    /\ (writes # <<>> /\ writes[Len(writes)].ok)
          => /\ writes[Len(writes)].uid # Undefined
             /\ attestationJson = RecordText(writes[Len(writes)].uid[1])
    /\ HasEvent("saveAttestationToJson", "return")
          => attestationJson = RecordText(attestations[Len(attestations)])

\* no step of a run whose attestation failed changes the file
C5_FailedAttestationKeepsFile ==
    HasEvent("createAttestation", "throw")
       => attestationJson' = attestationJson

(* C5, amended: whenever the most recent write of the record file          *)
(* succeeded, the file holds exactly one record, that of the run that made *)
(* the write, whatever the file held before; in the run that wrote it that *)
(* is the UID of the latest attestation; and a run whose attestation       *)
(* failed leaves the file as it was.                                       *)
C5_Amended == [] C5_FileIsLastWrite /\ [][C5_FailedAttestationKeepsFile]_vars

C5_Witness ==
    /\ pc = "exited"
    /\ Len(writes) = 2
    /\ writes[1].ok /\ writes[2].ok
    /\ writes[1].uid # writes[2].uid
    /\ attestationJson = RecordText(writes[2].uid[1])

(* C6: with the file missing or a pinning credential absent, uploadToIPFS  *)
(* never calls pinFileToIPFS and never returns: once it has ended it has   *)
(* thrown; and every call of pinFileToIPFS comes after both guards passed. *)
C6_GuardsBeforePin ==
    /\ (KeysAbsent \/ FileAbsent)
          => /\ Count("pinFileToIPFS", "call") = 0
             /\ ~HasEvent("uploadToIPFS", "return")
             /\ (HasEvent("uploadToIPFS", "call") /\ ~InProgress("uploadToIPFS"))
                   => HasEvent("uploadToIPFS", "throw")
    /\ \A j \in DOMAIN trace :
          (trace[j][1] = "pinFileToIPFS" /\ trace[j][2] = "call")
             => /\ \E i \in 1..(j - 1) :
                      trace[i][1] = "keysGuard" /\ trace[i][2] = "return"
                /\ \E i \in 1..(j - 1) :
                      trace[i][1] = "fileGuard" /\ trace[i][2] = "return"

C6_Witness ==
    /\ FileAbsent
    /\ ~KeysAbsent
    /\ HasEvent("uploadToIPFS", "throw")
    /\ Count("pinFileToIPFS", "call") = 0

(* C7, as stated: an absent option stops the step that needs it before its *)
(* external call: no pin without both credentials, no mint without the     *)
(* recipient, and without the gateway base URL no pin and no URL returned. *)
C7_Claim ==
    /\ KeysAbsent => ~HasEvent("pinFileToIPFS", "call")
    /\ RecipientAbsent => ~HasEvent("mintNFTree", "call")
    /\ GatewayAbsent => /\ ~HasEvent("pinFileToIPFS", "call")
                        /\ ~HasEvent("uploadToIPFS", "return")

(* C8, as stated: a failed run ends in a terminal state other than that of *)
(* a successful run, whose exit status is 0.                               *)
C8_Original ==
    (pc = "exited" /\ Failed) => exitCode # Some(0)

(* C8, amended: a failed run has logged its error and not the completion   *)
(* message, a successful run the completion message and no error; the      *)
(* process exits with status 0 in both cases.                              *)
C8_Amended ==
    pc = "exited"
       => /\ exitCode = Some(0)
          /\ Failed => /\ error # Undefined
                       /\ console = {<<ErrorMessage, error[1]>>}
          /\ ~Failed => /\ error = Undefined
                        /\ console = {<<CompletedMessage>>}

C8_Witness ==
    /\ pc = "exited"
    /\ Failed
    /\ exitCode = Some(0)
    /\ console = {<<ErrorMessage, "UploadFailed">>}

(* C9: for every token class that has been minted the metadata history is  *)
(* not empty, its last element is the current URI, and the current URI is  *)
(* not the empty string.                                                   *)
C9_HistoryEndsWithCurrent ==
    \A id \in everMinted :
        /\ _metadataHistory[id] # <<>>
        /\ _metadataHistory[id][Len(_metadataHistory[id])] = _tokenMetadata[id]
        /\ _tokenMetadata[id] # ""

C9_Witness ==
    /\ lastCall.result # Ok
    /\ lastCall.sender # _owner
    /\ \E id \in everMinted : Len(_metadataHistory[id]) >= 2

\* the history is the log of the successful calls
C10_HistoryIsLog ==
    \A id \in TokenIds :
        /\ _metadataHistory[id] = successLog[id]
        /\ successLog[id] # <<>>
              => _tokenMetadata[id] = successLog[id][Len(successLog[id])]

\* a transaction appends at most one URI, and only when it succeeds
C10_Step ==
    /\ everMinted \subseteq everMinted'
    /\ \A id \in TokenIds :
          \/ _metadataHistory'[id] = _metadataHistory[id]
          \/ /\ lastCall'.result = Ok
             /\ lastCall'.id = id
             /\ \E u \in URIs :
                   _metadataHistory'[id] = Append(_metadataHistory[id], u)

(* C10: the history of a class is the sequence of the URIs of the          *)
(* successful mint and updateTokenMetadata calls on it, and the current    *)
(* URI is the last of them; a step leaves a history alone or appends one   *)
(* URI to it, and a minted class stays minted.                             *)
C10_AppendOnly == [] C10_HistoryIsLog /\ [][C10_Step]_vars

C10_Witness ==
    /\ lastCall.op = "mint"
    /\ lastCall.result = Ok
    /\ _metadataHistory[lastCall.id] = <<"ipfs://a", "ipfs://b">>
    /\ _tokenMetadata[lastCall.id] = "ipfs://b"

----------------------------------------------------------------------------
(* Reading the contract *)

\* everything the contract stores
storage == <<_owner, _baseURI, _tokenMetadata, _metadataHistory, _balances>>

NotFound == "Token ID does not exist"
EmptyURL == "IPFS URL cannot be empty"
Unauthorized == "OwnableUnauthorizedAccount"

(* C11, as stated: updateTokenMetadata sent by the owner for a class that  *)
(* was never minted is rejected with the not-found error.                  *)
C11_Original ==
    (/\ lastCall.op = "updateTokenMetadata"
     /\ lastCall.sender = _owner
     /\ lastCall.id \notin everMinted)
       => lastCall.result = NotFound

\* a step that is updateTokenMetadata(id, u) sent by the owner for a class
\* never minted: rejected, by the not-found error unless u is empty, and
\* nothing stored changes
C11_Step ==
    \A id \in TokenIds \ everMinted : \A u \in URIs :
        updateTokenMetadata(_owner, id, u)
           => /\ lastCall'.result = (IF u = "" THEN EmptyURL ELSE NotFound)
              /\ UNCHANGED storage
              /\ id \notin everMinted'
              /\ _tokenMetadata'[id] = ""
              /\ _metadataHistory'[id] = <<>>

(* C11, amended: updateTokenMetadata sent by the owner for a class that    *)
(* was never minted is rejected, with the not-found error when the new URI *)
(* is not empty and with the empty-URI error when it is, and leaves the    *)
(* whole contract state unchanged: the class stays unminted with empty     *)
(* current URI and empty history.                                          *)
C11_Amended == [][C11_Step]_vars

C11_Witness ==
    /\ lastCall.op = "updateTokenMetadata"
    /\ lastCall.sender = _owner
    /\ lastCall.result = NotFound
    /\ lastCall.id \notin everMinted
    /\ everMinted # {}

\* a step that is a mutator sent by someone other than the owner
C12_Step ==
    (/\ lastCall'.op \in {"mint", "updateTokenMetadata", "updateBaseURI"}
     /\ lastCall'.sender # _owner)
       => /\ lastCall'.result = Unauthorized
          /\ UNCHANGED storage

(* C12: mint, updateTokenMetadata and updateBaseURI sent by anyone other   *)
(* than the owner are rejected with the authorization error and change     *)
(* nothing: no current URI, no history, no balance, not the base URI.      *)
C12_OnlyOwnerMutates ==
    [] (lastCall.sender # _owner => lastCall.result = Unauthorized)
    /\ [][C12_Step]_vars

C12_Witness ==
    /\ lastCall.op = "mint"
    /\ lastCall.sender # _owner
    /\ lastCall.result = Unauthorized
    /\ \E id \in everMinted : _balances[id]["0xRecipient"] > 0

(* C13: for every token class getTokenMetadata and getMetadataHistory both *)
(* revert exactly when the class was never minted; otherwise the first     *)
(* returns the URI of the latest successful mint or update of the class    *)
(* and the second the URIs of all of them, in order.                       *)
C13_ReadsAgree ==
    \A id \in TokenIds :
        LET m == getTokenMetadata(id)
            h == getMetadataHistory(id)
        IN /\ ~m.ok <=> id \notin everMinted
           /\ ~h.ok <=> id \notin everMinted
           /\ m.ok <=> h.ok
           /\ m.ok => m.value = successLog[id][Len(successLog[id])]
           /\ h.ok => h.value = successLog[id]

C13_Witness ==
    \E id \in everMinted : \E other \in TokenIds \ everMinted :
        /\ getTokenMetadata(id).value = "ipfs://b"
        /\ getMetadataHistory(id).value = <<"ipfs://a", "ipfs://b">>
        /\ ~getTokenMetadata(other).ok
        /\ ~getMetadataHistory(other).ok

\* mint and updateTokenMetadata leave the base URI alone, updateBaseURI
\* leaves every current URI and history alone
C14_Step ==
    /\ lastCall'.op \in {"mint", "updateTokenMetadata"}
          => /\ _baseURI' = _baseURI
             /\ \A id \in TokenIds : uri(id)' = uri(id)
    /\ lastCall'.op = "updateBaseURI"
          => UNCHANGED <<_tokenMetadata, _metadataHistory>>

(* C14: uri(id) is the same for every id: the base URI last passed to the  *)
(* constructor or to a successful updateBaseURI; mint and                  *)
(* updateTokenMetadata leave the base URI unchanged, and updateBaseURI     *)
(* leaves every class's current URI and history unchanged.                 *)
C14_BaseURIGlobal ==
    [] (\A id \in TokenIds : uri(id) = baseURISet)
    /\ [][C14_Step]_vars

C14_Witness ==
    /\ lastCall.op = "updateBaseURI"
    /\ lastCall.result = Ok
    /\ everMinted = TokenIds
    /\ uri(1) = "https://base/2/"
    /\ uri(2) = "https://base/2/"

(* C15: within one run createAttestation, the record write, uploadToIPFS,  *)
(* its call of pinFileToIPFS and mintNFTree are each invoked at most once, *)
(* whether they succeed or fail.                                           *)
C15_NoRetry ==
    /\ \A op \in {"createAttestation", "saveAttestationToJson", "uploadToIPFS",
                  "pinFileToIPFS", "mintNFTree"} : Count(op, "call") <= 1
    /\ Len(mintArgs) <= 1
    /\ Len(writes) <= run

C15_Witness ==
    /\ pc = "exited"
    /\ HasEvent("pinFileToIPFS", "throw")
    /\ Count("createAttestation", "call") = 1
    /\ Count("saveAttestationToJson", "call") = 1
    /\ Count("uploadToIPFS", "call") = 1
    /\ Count("pinFileToIPFS", "call") = 1
    /\ Count("mintNFTree", "call") = 0

(* C16: the recipient is checked only after createAttestation, the record  *)
(* write and uploadToIPFS have returned; a run that fails with the         *)
(* missing-recipient error has by then created its attestation,            *)
(* overwritten the record file with its UID and pinned the content.        *)
C16_RecipientCheckedLast ==
    /\ \A j \in DOMAIN trace :
          trace[j][1] = "recipientCheck"
             => \A op \in {"createAttestation", "saveAttestationToJson",
                           "uploadToIPFS"} :
                   \E i \in 1..(j - 1) : trace[i][1] = op /\ trace[i][2] = "return"
    /\ error = Some("MissingRecipient")
          => /\ RecipientAbsent
             /\ HasEvent("createAttestation", "return")
             /\ HasEvent("pinFileToIPFS", "return")
             /\ attestations # <<>>
             /\ attestations[Len(attestations)] = ReturnedValue("createAttestation")
             /\ attestationJson = RecordText(ReturnedValue("createAttestation"))
             /\ ReturnedValue("pinFileToIPFS") \in pins
             /\ mintArgs = <<>>

C16_Witness ==
    /\ pc = "exited"
    /\ run = 2
    /\ error = Some("MissingRecipient")
    /\ Len(writes) = 2
    /\ writes[1].uid = Some("0xabc")
    /\ attestations = <<"0xabc", "0xdef">>
    /\ attestationJson = RecordText("0xdef")
    /\ "Qm456" \in pins

====
